---- MODULE Spec2Model ----
(***************************************************************************)
(* kube-scanner (src/main.go): lists deployments, role bindings and        *)
(* cluster role bindings from a cluster, strips each object to a minimal   *)
(* copy (extract), annotates and serializes it (toYaml) and writes it to   *)
(* <outdir>/namespaces/<ns>/<type>/<name> or                               *)
(* <outdir>/non_namespaced/<type>/<name> (fileWriter.flush).               *)
(*                                                                         *)
(* Strings that the program only compares or concatenates whole (names,    *)
(* namespaces, labels of the layout) are TLA+ strings; the strings that    *)
(* strings.Contains searches (subject names, the -rolestring pattern) are  *)
(* sequences of characters.  A path is the sequence of its segments.  A    *)
(* byte stream is a sequence of serialized documents.                      *)
(***************************************************************************)
EXTENDS Integers, Sequences, FiniteSets, TLC

VARIABLES
    cluster,                     \* what the API server holds (ResourceSource)
    roleRefString,               \* the -rolestring flag
    pc,                          \* position of main
    deployments,                 \* deployments.Items
    userDefinedBindings,         \* main's userDefinedBindings
    roles,                       \* roles.Items of the current role binding
    userDefinedClusterBindings,  \* main's userDefinedClusterBindings
    role,                        \* the cluster role of the current cluster binding
    i,                           \* index of the enclosing range loop
    j,                           \* index of the range loop over roles.Items
    w,                           \* the fileWriter made last
    dirs,                        \* directories on disk
    files,                       \* files on disk: path -> bytes
    trace,                       \* history: the calls main has made, in order
    faultsLeft,                  \* environment faults still to be injected
    unknown,                     \* the argument of a stand-alone call of extract
    result                       \* what that call returned

vars == <<cluster, roleRefString, pc, deployments, userDefinedBindings, roles,
          userDefinedClusterBindings, role, i, j, w, dirs, files, trace,
          faultsLeft, unknown, result>>

pipelineVars == <<cluster, roleRefString, pc, deployments, userDefinedBindings, roles,
                  userDefinedClusterBindings, role, i, j, w, dirs, files, trace,
                  faultsLeft>>

(***************************************************************************)
(* Bounds.                                                                 *)
(***************************************************************************)
\* longest list of one category the API server returns
MaxItems == 2
\* environment faults (failed fetch, lookup, encode, mkdir, write) per run
MaxFaults == 1

(***************************************************************************)
(* Objects.  One record shape for every Go type: kind and ptr are the      *)
(* dynamic type (the struct, and whether it is passed by pointer); a field *)
(* a struct does not have holds the zero value.                            *)
(***************************************************************************)
Zero(kind, ptr) ==
    [kind |-> kind, ptr |-> ptr, TypeMeta |-> "", Labels |-> "", Name |-> "",
     Namespace |-> "", Spec |-> "", Rules |-> <<>>, RoleRef |-> "",
     Subjects |-> <<>>, ResourceVersion |-> "", Status |-> ""]

\* the nil runtime.Object
nil == Zero("nil", FALSE)

extract_dropsSubjects(v) ==
    CASE v.kind = "Deployment" /\ ~v.ptr ->
           [Zero("Deployment", TRUE) EXCEPT !.TypeMeta = v.TypeMeta,
               !.Labels = v.Labels, !.Name = v.Name,
               !.Namespace = v.Namespace, !.Spec = v.Spec]
      [] v.kind = "RoleBinding" /\ ~v.ptr ->
           [Zero("RoleBinding", TRUE) EXCEPT !.TypeMeta = v.TypeMeta,
               !.Labels = v.Labels, !.Name = v.Name,
               !.Namespace = v.Namespace, !.RoleRef = v.RoleRef]
      [] v.kind = "Role" /\ ~v.ptr ->
           [Zero("Role", TRUE) EXCEPT !.TypeMeta = v.TypeMeta,
               !.Labels = v.Labels, !.Name = v.Name,
               !.Namespace = v.Namespace, !.Rules = v.Rules]
      [] v.kind = "ClusterRoleBinding" /\ ~v.ptr ->
           [Zero("ClusterRoleBinding", TRUE) EXCEPT !.TypeMeta = v.TypeMeta,
               !.Labels = v.Labels, !.Name = v.Name,
               !.Namespace = v.Namespace, !.RoleRef = v.RoleRef]
      [] v.kind = "ClusterRole" /\ v.ptr ->
           [Zero("ClusterRole", TRUE) EXCEPT !.TypeMeta = v.TypeMeta,
               !.Labels = v.Labels, !.Name = v.Name, !.Rules = v.Rules]
      [] OTHER -> nil

\* extract: a zero value of the type, a few fields copied over, returned by
\* DeepCopyObject (a pointer); nil when no case of the type switch matches.
extract(v) ==
    CASE v.kind = "Deployment" /\ ~v.ptr ->
           [Zero("Deployment", TRUE) EXCEPT !.TypeMeta = v.TypeMeta,
               !.Labels = v.Labels, !.Name = v.Name,
               !.Namespace = v.Namespace, !.Spec = v.Spec]
      [] v.kind = "RoleBinding" /\ ~v.ptr ->
           [Zero("RoleBinding", TRUE) EXCEPT !.TypeMeta = v.TypeMeta,
               !.Labels = v.Labels, !.Name = v.Name,
               !.Namespace = v.Namespace, !.RoleRef = v.RoleRef,
               !.Subjects = v.Subjects]
      [] v.kind = "Role" /\ ~v.ptr ->
           [Zero("Role", TRUE) EXCEPT !.TypeMeta = v.TypeMeta,
               !.Labels = v.Labels, !.Name = v.Name,
               !.Namespace = v.Namespace, !.Rules = v.Rules]
      [] v.kind = "ClusterRoleBinding" /\ ~v.ptr ->
           [Zero("ClusterRoleBinding", TRUE) EXCEPT !.TypeMeta = v.TypeMeta,
               !.Labels = v.Labels, !.Name = v.Name,
               !.Namespace = v.Namespace, !.RoleRef = v.RoleRef,
               !.Subjects = v.Subjects]
      [] v.kind = "ClusterRole" /\ v.ptr ->
           [Zero("ClusterRole", TRUE) EXCEPT !.TypeMeta = v.TypeMeta,
               !.Labels = v.Labels, !.Name = v.Name, !.Rules = v.Rules]
      [] OTHER -> nil

(***************************************************************************)
(* SubjectFilter.                                                          *)
(***************************************************************************)
\* const userDefinedUserString = "OPSH"
userDefinedUserString == <<"O", "P", "S", "H">>

\* strings.Index: the offset of the first occurrence of substr at or after k,
\* -1 when there is none
RECURSIVE IndexFrom(_, _, _)
IndexFrom(s, substr, k) ==
    IF k + Len(substr) > Len(s) THEN -1
    ELSE IF SubSeq(s, k + 1, k + Len(substr)) = substr THEN k
    ELSE IndexFrom(s, substr, k + 1)

Contains(s, substr) == IndexFrom(s, substr, 0) >= 0

ToUpper(s) ==
    [k \in 1..Len(s) |->
        CASE s[k] = "o" -> "O" [] s[k] = "p" -> "P" [] s[k] = "s" -> "S"
          [] s[k] = "h" -> "H" [] OTHER -> s[k]]

\* the values of the -rolestring flag: its default, and a shorter one
RoleStrings == {userDefinedUserString, <<"O", "P", "S">>}

isUserDefined_foldsCase(s, lookFor) == Contains(ToUpper(s), ToUpper(lookFor))

isUserDefined(s, lookFor) == Contains(s, lookFor)

RECURSIVE containsUserDefined(_, _)
containsUserDefined(subjects, lookFor) ==
    IF subjects = <<>> THEN FALSE
    ELSE IF isUserDefined(Head(subjects).Name, lookFor) THEN TRUE
    ELSE containsUserDefined(Tail(subjects), lookFor)

\* the loops of main that keep the bindings whose subjects pass the filter
RECURSIVE userDefined(_, _)
userDefined(items, lookFor) ==
    IF items = <<>> THEN <<>>
    ELSE IF containsUserDefined(Head(items).Subjects, lookFor)
         THEN <<Head(items)>> \o userDefined(Tail(items), lookFor)
         ELSE userDefined(Tail(items), lookFor)

(***************************************************************************)
(* KindAnnotator and Serializer.                                           *)
(***************************************************************************)
\* scheme.Scheme.ObjectKinds: the group/version/kinds registered for the
\* object's type; registered is the registry's answer for this call.  The
\* registry lists an internal version before the external one.
ObjectKinds(obj, registered) ==
    IF registered /\ obj.kind # "nil"
    THEN [gvks |-> <<[Version |-> "__internal", Kind |-> obj.kind],
                     [Version |-> "v1", Kind |-> obj.kind]>>,
          err |-> FALSE]
    ELSE [gvks |-> <<>>, err |-> TRUE]

\* the loop of addTypeInformationToObject: the first gvk with a kind and an
\* external version is set on the object
RECURSIVE SetFirstQualified(_, _)
SetFirstQualified(obj, gvks) ==
    IF gvks = <<>> THEN obj
    ELSE IF Len(Head(gvks).Kind) = 0 THEN SetFirstQualified(obj, Tail(gvks))
    ELSE IF Len(Head(gvks).Version) = 0 \/ Head(gvks).Version = "__internal"
         THEN SetFirstQualified(obj, Tail(gvks))
    ELSE [obj EXCEPT !.TypeMeta = Head(gvks).Version \o "/" \o Head(gvks).Kind]

addTypeInformationToObject(obj, registered) ==
    LET k == ObjectKinds(obj, registered)
    IN  IF k.err THEN [obj |-> obj, err |-> TRUE]
        ELSE [obj |-> SetFirstQualified(obj, k.gvks), err |-> FALSE]

\* the fields a serialized document shows
DocFields ==
    {"TypeMeta", "Labels", "Name", "Namespace", "Spec", "Rules", "RoleRef",
     "Subjects", "ResourceVersion", "Status"}

\* the YAML serializer's Encode: the bytes of one document
Encode(c) == <<[f \in DocFields |-> c[f]]>>

(***************************************************************************)
(* HierarchicalWriter.                                                     *)
(***************************************************************************)
\* const defaultOutputDir = "default": *outputDir when -outdir is not given
defaultOutputDir == "default"

newFileWriter_reused(rootPath) == [rootDir |-> rootPath, buffer |-> w.buffer]

newFileWriter(rootPath) == [rootDir |-> rootPath, buffer |-> <<>>]

\* fileWriter.Write appends to the buffer
Write(f, p) == [f EXCEPT !.buffer = f.buffer \o p]

\* os.MkdirAll: the directory and its parents; an existing directory is no
\* error.  fault is what the file system does to this call.
MkdirAll(ds, path, fault) ==
    IF fault = "mkdir" THEN [dirs |-> ds, err |-> TRUE]
    ELSE [dirs |-> ds \cup {SubSeq(path, 1, k) : k \in 1..Len(path)},
          err |-> FALSE]

\* ioutil.WriteFile: create or truncate, then write.  A write that fails
\* leaves the truncated file.
WriteFile(fs, filename, data, fault) ==
    LET put(d) == [q \in DOMAIN fs \cup {filename} |->
                      IF q = filename THEN d ELSE fs[q]]
    IN  IF fault = "write" THEN [files |-> put(<<>>), err |-> TRUE]
        ELSE [files |-> put(data), err |-> FALSE]

flush_alwaysNamespaced(f, ds, fs, namespace, name, resourceType, fault) ==
    LET path == <<f.rootDir, "namespaces", namespace, resourceType>>
        m == MkdirAll(ds, path, fault)
        wr == WriteFile(fs, Append(path, name), f.buffer, fault)
    IN  IF m.err
        THEN [dirs |-> ds, files |-> fs, err |-> TRUE, file |-> Append(path, name)]
        ELSE [dirs |-> m.dirs, files |-> wr.files, err |-> wr.err,
              file |-> Append(path, name)]

\* fileWriter.flush on the disk (ds, fs)
flush(f, ds, fs, namespace, name, resourceType, fault) ==
    LET path == IF namespace # ""
                THEN <<f.rootDir, "namespaces", namespace, resourceType>>
                ELSE <<f.rootDir, "non_namespaced", resourceType>>
        m == MkdirAll(ds, path, fault)
        wr == WriteFile(fs, Append(path, name), f.buffer, fault)
    IN  IF m.err
        THEN [dirs |-> ds, files |-> fs, err |-> TRUE, file |-> Append(path, name)]
        ELSE [dirs |-> m.dirs, files |-> wr.files, err |-> wr.err,
              file |-> Append(path, name)]

\* toYaml: the result of addTypeInformationToObject is dropped; an Encode
\* error is fatal.  encodes is the serializer's answer for this call.
toYaml(c, f, registered, encodes) ==
    LET a == addTypeInformationToObject(c, registered)
    IN  IF encodes THEN [w |-> Write(f, Encode(a.obj)), fatal |-> FALSE]
        ELSE [w |-> f, fatal |-> TRUE]

(***************************************************************************)
(* The cluster: what the ResourceSource answers.  List items come without  *)
(* type information and with server-populated fields.                      *)
(***************************************************************************)
Namespaces == {"ns1", "ns2"}
RoleNames == {"X", "Y"}

Subject(name) == [Kind |-> "Group", Name |-> name, Namespace |-> ""]

\* subject lists: none; names that hold the pattern only split or in lower
\* case; a match in second place; a match in first place
SubjectLists ==
    { <<>>,
      <<Subject(<<"O", "P", "x", "S", "H">>), Subject(<<"o", "p", "s", "h">>)>>,
      <<Subject(<<"O", "P", "S">>), Subject(<<"x", "O", "P", "S", "H">>)>>,
      <<Subject(<<"O", "P", "S", "H", "x">>)>> }

Served(kind, namespace, name) ==
    [Zero(kind, FALSE) EXCEPT !.Namespace = namespace, !.Name = name,
        !.Labels = "app=scan", !.ResourceVersion = "7", !.Status = "observed"]

Deployment(namespace, name) ==
    [Served("Deployment", namespace, name) EXCEPT !.Spec = "replicas=1"]

RoleBinding(namespace, name, roleRef, subjects) ==
    [Served("RoleBinding", namespace, name) EXCEPT
        !.RoleRef = roleRef, !.Subjects = subjects]

Role(namespace, name) ==
    [Served("Role", namespace, name) EXCEPT !.Rules = <<namespace, name>>]

ClusterRoleBinding(name, roleRef, subjects) ==
    [Served("ClusterRoleBinding", "", name) EXCEPT
        !.RoleRef = roleRef, !.Subjects = subjects]

ClusterRole(name) ==
    [Served("ClusterRole", "", name) EXCEPT !.Rules = <<"cluster", name>>]

\* what tells the objects of a list apart, beside their names
DeploymentShapes == Namespaces
RoleBindingShapes == Namespaces \X RoleNames \X SubjectLists
ClusterRoleBindingShapes == RoleNames \X SubjectLists

\* the list of the objects of the shapes sh[1], sh[2], ...; the k-th
\* object's name ends in k, so names are unique in a list
DeploymentList(sh) ==
    [k \in DOMAIN sh |-> Deployment(sh[k], "d" \o ToString(k))]

RoleBindingList(sh) ==
    [k \in DOMAIN sh |->
        RoleBinding(sh[k][1], "rb" \o ToString(k), sh[k][2], sh[k][3])]

ClusterRoleBindingList(sh) ==
    [k \in DOMAIN sh |->
        ClusterRoleBinding("crb" \o ToString(k), sh[k][1], sh[k][2])]

\* the roles and cluster roles of every cluster: X in both namespaces, Y in
\* ns2 only; the cluster role X only
ServedRoles == <<Role("ns1", "X"), Role("ns2", "X"), Role("ns2", "Y")>>
ServedClusterRoles == <<ClusterRole("X")>>

Cluster(ds, rbs, crbs) ==
    [deployments |-> ds, roleBindings |-> rbs, roles |-> ServedRoles,
     clusterRoleBindings |-> crbs, clusterRoles |-> ServedClusterRoles]

\* a cluster with at most one object per list: the runs over it take faults
NarrowCluster(c) ==
    \E nd \in 0..1, nrb \in 0..1, ncrb \in 0..1 :
        \E ds \in [1..nd -> {"ns1"}], rbs \in [1..nrb -> RoleBindingShapes],
           crbs \in [1..ncrb -> ClusterRoleBindingShapes] :
            c = Cluster(DeploymentList(ds), RoleBindingList(rbs),
                        ClusterRoleBindingList(crbs))

\* a cluster with one list of 2..MaxItems objects beside two lists of one
\* object: the runs over it take no fault
WideCluster(c) ==
    LET d1 == <<"ns1">>
        rb1 == <<<<"ns1", "X", <<Subject(<<"O", "P", "S", "H", "x">>)>> >>>>
        crb1 == <<<<"X", <<Subject(<<"O", "P", "S", "H", "x">>)>> >>>>
        of(ds, rbs, crbs) ==
            c = Cluster(DeploymentList(ds), RoleBindingList(rbs),
                        ClusterRoleBindingList(crbs))
    IN  \E n \in 2..MaxItems :
            \/ \E ds \in [1..n -> DeploymentShapes] : of(ds, rb1, crb1)
            \/ \E rbs \in [1..n -> RoleBindingShapes] : of(d1, rbs, crb1)
            \/ \E crbs \in [1..n -> ClusterRoleBindingShapes] : of(d1, rb1, crbs)

\* clientset.RbacV1().Roles(namespace).List with the field selector
\* metadata.name = name: the roles of the namespace (of all, for "") that
\* have the name
RECURSIVE ListRolesNamed(_, _, _)
ListRolesNamed(items, namespace, name) ==
    IF items = <<>> THEN <<>>
    ELSE IF (namespace = "" \/ Head(items).Namespace = namespace)
            /\ Head(items).Name = name
         THEN <<Head(items)>> \o ListRolesNamed(Tail(items), namespace, name)
         ELSE ListRolesNamed(Tail(items), namespace, name)

\* clientset.RbacV1().ClusterRoles().Get: a pointer to the cluster role of
\* the name, or not found
GetClusterRoleNamed(items, name) ==
    LET hits == {k \in 1..Len(items) : items[k].Name = name}
    IN  IF hits = {} THEN [role |-> nil, err |-> TRUE]
        ELSE [role |-> [items[CHOOSE k \in hits : TRUE] EXCEPT !.ptr = TRUE],
              err |-> FALSE]

(***************************************************************************)
(* History: one event per call main makes to the source, to toYaml and to  *)
(* flush.  cat is the category the call belongs to: 1 deployments, 2 role  *)
(* bindings and their roles, 3 cluster role bindings and their roles.      *)
(***************************************************************************)
Event(op, cat) ==
    [op |-> op, cat |-> cat, what |-> "", ok |-> TRUE, obj |-> nil,
     registered |-> TRUE, namespace |-> "", name |-> "", resourceType |-> "",
     file |-> <<>>, fault |-> "none"]

FetchEvent(what, cat, namespace, name, ok) ==
    [Event("fetch", cat) EXCEPT !.what = what, !.namespace = namespace,
        !.name = name, !.ok = ok]

ToYamlEvent(c, cat, registered, encodes) ==
    [Event("toYaml", cat) EXCEPT !.obj = c, !.registered = registered,
        !.ok = encodes]

FlushEvent(c, cat, registered, namespace, name, resourceType, fault, r) ==
    [Event("flush", cat) EXCEPT !.obj = c, !.registered = registered,
        !.namespace = namespace, !.name = name,
        !.resourceType = resourceType, !.fault = fault, !.ok = ~r.err,
        !.file = r.file]

Cost(b) == IF b THEN 0 ELSE 1

(***************************************************************************)
(* One pass of a loop body's write:                                        *)
(*     w := newFileWriter(outputDir); toYaml(extract(src), w);             *)
(*     w.flush(namespace, name, resourceType)                              *)
(* The error flush returns is dropped.  log.Fatal in toYaml ends the run.  *)
(***************************************************************************)
WriteObject(src, namespace, name, resourceType, cat, nextPc) ==
    \E registered \in BOOLEAN, encodes \in BOOLEAN,
       fault \in {"none", "mkdir", "write"} :
        LET c == extract(src)
            y == toYaml(c, newFileWriter(defaultOutputDir), registered, encodes)
            r == flush(y.w, dirs, files, namespace, name, resourceType, fault)
            cost == Cost(registered) + Cost(encodes) + Cost(fault = "none")
        IN  /\ cost <= faultsLeft
            /\ faultsLeft' = faultsLeft - cost
            /\ w' = y.w
            /\ IF y.fatal
               THEN /\ fault = "none"
                    /\ pc' = "fatal"
                    /\ trace' = Append(trace, ToYamlEvent(c, cat, registered, FALSE))
                    /\ UNCHANGED <<dirs, files>>
               ELSE /\ pc' = nextPc
                    /\ dirs' = r.dirs
                    /\ files' = r.files
                    /\ trace' = trace \o
                         <<ToYamlEvent(c, cat, registered, TRUE),
                           FlushEvent(c, cat, registered, namespace, name,
                                      resourceType, fault, r)>>

\* a List of the source: ok is whether the call succeeds
Fetch(what, cat, namespace, name, ok) ==
    /\ Cost(ok) <= faultsLeft
    /\ faultsLeft' = faultsLeft - Cost(ok)
    /\ trace' = Append(trace, FetchEvent(what, cat, namespace, name, ok))

(***************************************************************************)
(* main, from the first List on.                                           *)
(***************************************************************************)
\* a run over a cluster with more than one object in a list takes no fault
Narrow(c) ==
    /\ Len(c.deployments) <= 1
    /\ Len(c.roleBindings) <= 1
    /\ Len(c.clusterRoleBindings) <= 1

\* extract was not called
pending == Zero("pending", FALSE)

Init ==
    /\ NarrowCluster(cluster) \/ WideCluster(cluster)
    /\ faultsLeft = IF Narrow(cluster) THEN MaxFaults ELSE 0
    /\ roleRefString \in RoleStrings
    /\ pc = "ListDeployments"
    /\ deployments = <<>>
    /\ userDefinedBindings = <<>>
    /\ roles = <<>>
    /\ userDefinedClusterBindings = <<>>
    /\ role = nil
    /\ i = 0
    /\ j = 0
    /\ w = [rootDir |-> "", buffer |-> <<>>]
    /\ dirs = {}
    /\ files = <<>>
    /\ trace = <<>>
    /\ unknown = nil
    /\ result = pending

\* deployments, err := ...Deployments("").List(...); log.Fatal on err
ListDeployments ==
    /\ pc = "ListDeployments"
    /\ \E ok \in BOOLEAN :
        /\ Fetch("deployments", 1, "", "", ok)
        /\ IF ok
           THEN /\ deployments' = cluster.deployments
                /\ i' = 1
                /\ pc' = IF cluster.deployments = <<>> THEN "ListBindings"
                         ELSE "WriteDeployment"
           ELSE /\ pc' = "fatal"
                /\ UNCHANGED <<deployments, i>>
    /\ UNCHANGED <<cluster, roleRefString, userDefinedBindings, roles,
                   userDefinedClusterBindings, role, j, w, dirs, files,
                   unknown, result>>

\* the body of: for _, deployment := range deployments.Items
WriteDeployment ==
    /\ pc = "WriteDeployment"
    /\ WriteObject(deployments[i], deployments[i].Namespace,
                   deployments[i].Name, "deployment", 1,
                   IF i = Len(deployments) THEN "ListBindings"
                   ELSE "WriteDeployment")
    /\ i' = i + 1
    /\ UNCHANGED <<cluster, roleRefString, deployments, userDefinedBindings,
                   roles, userDefinedClusterBindings, role, j, unknown, result>>

ListBindings_prefetching ==
    /\ pc = "ListBindings"
    /\ faultsLeft' = faultsLeft
    /\ trace' = trace \o <<FetchEvent("rolebindings", 2, "", "", TRUE),
                           FetchEvent("clusterrolebindings", 3, "", "", TRUE)>>
    /\ userDefinedBindings' = userDefined(cluster.roleBindings, roleRefString)
    /\ i' = 1
    /\ pc' = IF userDefinedBindings' = <<>> THEN "ListClusterBindings"
             ELSE "WriteBinding"
    /\ UNCHANGED <<cluster, roleRefString, deployments, roles,
                   userDefinedClusterBindings, role, j, w, dirs, files,
                   unknown, result>>

\* bindings, err := ...RoleBindings("").List(...); log.Fatal on err; then the
\* loop that fills userDefinedBindings
ListBindings ==
    /\ pc = "ListBindings"
    /\ \E ok \in BOOLEAN :
        /\ Fetch("rolebindings", 2, "", "", ok)
        /\ IF ok
           THEN /\ userDefinedBindings' =
                       userDefined(cluster.roleBindings, roleRefString)
                /\ i' = 1
                /\ pc' = IF userDefinedBindings' = <<>> THEN "ListClusterBindings"
                         ELSE "WriteBinding"
           ELSE /\ pc' = "fatal"
                /\ UNCHANGED <<userDefinedBindings, i>>
    /\ UNCHANGED <<cluster, roleRefString, deployments, roles,
                   userDefinedClusterBindings, role, j, w, dirs, files,
                   unknown, result>>

\* the head of the body of: for _, binding := range userDefinedBindings
WriteBinding ==
    /\ pc = "WriteBinding"
    /\ WriteObject(userDefinedBindings[i], userDefinedBindings[i].Namespace,
                   userDefinedBindings[i].Name, "binding", 2, "ListRoles")
    /\ UNCHANGED <<cluster, roleRefString, deployments, userDefinedBindings,
                   roles, userDefinedClusterBindings, role, i, j, unknown,
                   result>>

\* where main goes when the roles of userDefinedBindings[i] are done
AfterRoles == IF i = Len(userDefinedBindings) THEN "ListClusterBindings"
              ELSE "WriteBinding"

\* roles, _ := ...Roles(binding.Namespace).List(..., opts): the error is
\* dropped, and a failed List leaves the empty list it was given
ListRoles ==
    /\ pc = "ListRoles"
    /\ \E ok \in BOOLEAN :
        /\ Fetch("roles", 2, userDefinedBindings[i].Namespace,
                 userDefinedBindings[i].RoleRef, ok)
        /\ roles' = IF ok
                    THEN ListRolesNamed(cluster.roles,
                                        userDefinedBindings[i].Namespace,
                                        userDefinedBindings[i].RoleRef)
                    ELSE <<>>
    /\ j' = 1
    /\ IF roles' = <<>>
       THEN /\ i' = i + 1
            /\ pc' = AfterRoles
       ELSE /\ i' = i
            /\ pc' = "WriteRole"
    /\ UNCHANGED <<cluster, roleRefString, deployments, userDefinedBindings,
                   userDefinedClusterBindings, role, w, dirs, files, unknown,
                   result>>

\* the body of: for _, role := range roles.Items
WriteRole ==
    /\ pc = "WriteRole"
    /\ WriteObject(roles[j], roles[j].Namespace, roles[j].Name, "role", 2,
                   IF j = Len(roles) THEN AfterRoles ELSE "WriteRole")
    /\ j' = j + 1
    /\ i' = IF j = Len(roles) THEN i + 1 ELSE i
    /\ UNCHANGED <<cluster, roleRefString, deployments, userDefinedBindings,
                   roles, userDefinedClusterBindings, role, unknown, result>>

\* clusterBindings, err := ...ClusterRoleBindings().List(...); log.Fatal on
\* err; then the loop that fills userDefinedClusterBindings
ListClusterBindings ==
    /\ pc = "ListClusterBindings"
    /\ \E ok \in BOOLEAN :
        /\ Fetch("clusterrolebindings", 3, "", "", ok)
        /\ IF ok
           THEN /\ userDefinedClusterBindings' =
                       userDefined(cluster.clusterRoleBindings, roleRefString)
                /\ i' = 1
                /\ pc' = IF userDefinedClusterBindings' = <<>> THEN "done"
                         ELSE "WriteClusterBinding"
           ELSE /\ pc' = "fatal"
                /\ UNCHANGED <<userDefinedClusterBindings, i>>
    /\ UNCHANGED <<cluster, roleRefString, deployments, userDefinedBindings,
                   roles, role, j, w, dirs, files, unknown, result>>

\* the head of the body of: for _, binding := range userDefinedClusterBindings
WriteClusterBinding ==
    /\ pc = "WriteClusterBinding"
    /\ WriteObject(userDefinedClusterBindings[i],
                   userDefinedClusterBindings[i].Namespace,
                   userDefinedClusterBindings[i].Name, "clusterbinding", 3,
                   "GetClusterRole")
    /\ UNCHANGED <<cluster, roleRefString, deployments, userDefinedBindings,
                   roles, userDefinedClusterBindings, role, i, j, unknown,
                   result>>

GetClusterRole_errorDropped ==
    /\ pc = "GetClusterRole"
    /\ LET g == GetClusterRoleNamed(cluster.clusterRoles,
                                    userDefinedClusterBindings[i].RoleRef)
       IN  /\ trace' = Append(trace,
                  FetchEvent("clusterrole", 3, "",
                             userDefinedClusterBindings[i].RoleRef, ~g.err))
           /\ role' = g.role
           /\ IF g.err
              THEN /\ i' = i + 1
                   /\ pc' = IF i = Len(userDefinedClusterBindings) THEN "done"
                            ELSE "WriteClusterBinding"
              ELSE /\ i' = i
                   /\ pc' = "WriteClusterRole"
    /\ UNCHANGED <<cluster, roleRefString, deployments, userDefinedBindings,
                   roles, userDefinedClusterBindings, j, w, dirs, files,
                   faultsLeft, unknown, result>>

\* role, err := ...ClusterRoles().Get(..., binding.RoleRef.Name, ...);
\* log.Fatal on err (not found, or the call failing)
GetClusterRole ==
    /\ pc = "GetClusterRole"
    /\ LET g == GetClusterRoleNamed(cluster.clusterRoles,
                                    userDefinedClusterBindings[i].RoleRef)
       IN  \E ok \in BOOLEAN :
            /\ ok => ~g.err
            /\ Cost(ok \/ g.err) <= faultsLeft
            /\ faultsLeft' = faultsLeft - Cost(ok \/ g.err)
            /\ trace' = Append(trace,
                   FetchEvent("clusterrole", 3, "",
                              userDefinedClusterBindings[i].RoleRef, ok))
            /\ IF ok
               THEN /\ role' = g.role
                    /\ pc' = "WriteClusterRole"
               ELSE /\ pc' = "fatal"
                    /\ UNCHANGED role
    /\ UNCHANGED <<cluster, roleRefString, deployments, userDefinedBindings,
                   roles, userDefinedClusterBindings, i, j, w, dirs, files,
                   unknown, result>>

\* the tail of the body: w = newFileWriter(...); toYaml(extract(role), w);
\* w.flush(role.Namespace, role.Name, "clusterrole")
WriteClusterRole ==
    /\ pc = "WriteClusterRole"
    /\ WriteObject(role, role.Namespace, role.Name, "clusterrole", 3,
                   IF i = Len(userDefinedClusterBindings) THEN "done"
                   ELSE "WriteClusterBinding")
    /\ i' = i + 1
    /\ UNCHANGED <<cluster, roleRefString, deployments, userDefinedBindings,
                   roles, userDefinedClusterBindings, role, j, unknown, result>>

Next ==
    \/ ListDeployments
    \/ WriteDeployment
    \/ ListBindings
    \/ WriteBinding
    \/ ListRoles
    \/ WriteRole
    \/ ListClusterBindings
    \/ WriteClusterBinding
    \/ GetClusterRole
    \/ WriteClusterRole

Spec == Init /\ [][Next]_vars

(***************************************************************************)
(* extract on its own: one call on an object of any type.                  *)
(***************************************************************************)
\* the kinds the data model names, and one it does not
Kinds == {"Pod", "Secret", "Deployment", "Role", "RoleBinding",
          "ClusterRole", "ClusterRoleBinding"}
OtherKinds == {"ConfigMap"}

\* objects with every field populated, given by value or by pointer
ExtractInputs ==
    { [kind |-> k, ptr |-> p, TypeMeta |-> "v1/" \o k, Labels |-> "app=scan",
       Name |-> n, Namespace |-> ns, Spec |-> "replicas=1",
       Rules |-> <<"get", n>>, RoleRef |-> "X",
       Subjects |-> <<Subject(userDefinedUserString)>>,
       ResourceVersion |-> "7", Status |-> "observed"] :
        k \in Kinds \cup OtherKinds, p \in BOOLEAN, n \in RoleNames,
        ns \in Namespaces \cup {""} }

ExtractInit ==
    /\ unknown \in ExtractInputs
    /\ result = pending
    /\ cluster = Cluster(<<>>, <<>>, <<>>)
    /\ faultsLeft = 0
    /\ roleRefString = userDefinedUserString
    /\ pc = "extract"
    /\ deployments = <<>>
    /\ userDefinedBindings = <<>>
    /\ roles = <<>>
    /\ userDefinedClusterBindings = <<>>
    /\ role = nil
    /\ i = 0
    /\ j = 0
    /\ w = [rootDir |-> "", buffer |-> <<>>]
    /\ dirs = {}
    /\ files = <<>>
    /\ trace = <<>>

CallExtract ==
    /\ pc = "extract"
    /\ result = pending
    /\ result' = extract(unknown)
    /\ UNCHANGED <<unknown, pipelineVars>>

ExtractNext == CallExtract

ExtractSpec == ExtractInit /\ [][ExtractNext]_vars

(***************************************************************************)
(* Properties.                                                             *)
(***************************************************************************)
Events == 1..Len(trace)
Flushes == {k \in Events : trace[k].op = "flush"}
Range(seq) == {seq[k] : k \in 1..Len(seq)}

\* pattern occurs in s as a contiguous run of equal characters
OccursIn(pattern, s) ==
    \E o \in 0..(Len(s) - Len(pattern)) :
        \A k \in 1..Len(pattern) : s[o + k] = pattern[k]

\* the binding has a subject whose name holds the configured pattern
Matching(b) ==
    \E k \in 1..Len(b.Subjects) : OccursIn(roleRefString, b.Subjects[k].Name)

\* where the layout puts an object
NamespacedFile(namespace, resourceType, name) ==
    <<defaultOutputDir, "namespaces", namespace, resourceType, name>>
ClusterFile(resourceType, name) ==
    <<defaultOutputDir, "non_namespaced", resourceType, name>>

\* C1: once a fetch from the source has failed, main makes no further call
\* (no fetch, no toYaml, no flush): the failed fetch is the last event.
C1_FetchFailureAborts ==
    \A k \in Events :
        (trace[k].op = "fetch" /\ ~trace[k].ok) => k = Len(trace)

\* C2: once a flush has returned an error, main makes no further call: the
\* failed flush is the last event.
C2_FlushFailureAborts ==
    \A k \in Events :
        (trace[k].op = "flush" /\ ~trace[k].ok) => k = Len(trace)

\* C3: an object whose group/version/kind lookup failed is never encoded and
\* handed to flush.
C3_LookupFailureSurfaced ==
    \A k \in Events : trace[k].op = "flush" => trace[k].registered

\* C4: every binding file on disk is that of a binding with a matching
\* subject, and every role file has the name of the role reference of such a
\* binding (for a role, in the file's namespace).
C4_OnlyMatchingExported ==
    \A f \in DOMAIN files :
        LET resourceType == f[Len(f) - 1]
            name == f[Len(f)]
            namespace == IF f[2] = "namespaces" THEN f[3] ELSE ""
        IN  /\ resourceType = "binding" =>
                \E b \in Range(cluster.roleBindings) :
                    b.Namespace = namespace /\ b.Name = name /\ Matching(b)
            /\ resourceType = "clusterbinding" =>
                \E b \in Range(cluster.clusterRoleBindings) :
                    b.Name = name /\ Matching(b)
            /\ resourceType = "role" =>
                \E b \in Range(cluster.roleBindings) :
                    b.Namespace = namespace /\ b.RoleRef = name /\ Matching(b)
            /\ resourceType = "clusterrole" =>
                \E b \in Range(cluster.clusterRoleBindings) :
                    b.RoleRef = name /\ Matching(b)

\* a finished run that wrote a matching binding and its role, and left out a
\* binding whose subjects hold the pattern only split or in lower case
C4_Witness ==
    /\ pc = "done"
    /\ \E b1, b2 \in Range(cluster.roleBindings) :
        /\ Matching(b1)
        /\ NamespacedFile(b1.Namespace, "binding", b1.Name) \in DOMAIN files
        /\ NamespacedFile(b1.Namespace, "role", b1.RoleRef) \in DOMAIN files
        /\ b2.Subjects # <<>>
        /\ ~Matching(b2)
        /\ NamespacedFile(b2.Namespace, "binding", b2.Name) \notin DOMAIN files

\* C5: when the run is done, every matching role binding whose role exists in
\* its namespace has its role on disk at namespaces/ns/role/X, one document,
\* the canonicalized role.
C5_RoleFileWritten ==
    pc = "done" =>
        \A b \in Range(cluster.roleBindings) :
            \A r \in Range(cluster.roles) :
                (Matching(b) /\ r.Namespace = b.Namespace /\ r.Name = b.RoleRef)
                => LET f == NamespacedFile(b.Namespace, "role", b.RoleRef)
                   IN  /\ f \in DOMAIN files
                       /\ Len(files[f]) = 1
                       /\ [files[f][1] EXCEPT !.TypeMeta = ""]
                            = Encode(extract(r))[1]

\* C6: a failed Get of a cluster role is the last thing the run does: it ends
\* fatally, the files flushed before are on disk, no file of a later cluster
\* binding is, and no file of a cluster role that does not exist is.
C6_MissingClusterRoleAborts ==
    \A k \in Events :
        (trace[k].op = "fetch" /\ trace[k].what = "clusterrole" /\ ~trace[k].ok)
        => /\ k = Len(trace)
           /\ pc = "fatal"
           /\ \A m \in Flushes : trace[m].ok => trace[m].file \in DOMAIN files
           /\ \A m \in (i + 1)..Len(userDefinedClusterBindings) :
                ClusterFile("clusterbinding", userDefinedClusterBindings[m].Name)
                    \notin DOMAIN files
           /\ (\A r \in Range(cluster.clusterRoles) : r.Name # trace[k].name)
                => ClusterFile("clusterrole", trace[k].name) \notin DOMAIN files

\* the first of two matching cluster bindings names a cluster role that does
\* not exist: the run ended at its Get, with the binding's file on disk
C6_Witness ==
    /\ pc = "fatal"
    /\ trace # <<>>
    /\ trace[Len(trace)].what = "clusterrole"
    /\ \A r \in Range(cluster.clusterRoles) : r.Name # trace[Len(trace)].name
    /\ i < Len(userDefinedClusterBindings)
    /\ ClusterFile("clusterbinding", userDefinedClusterBindings[i].Name)
           \in DOMAIN files

\* C7: every flush computed namespaces/<ns>/<type>/<name> for a non-empty
\* namespace and non_namespaced/<type>/<name> for an empty one, and, unless
\* the file system failed, returned no error and left the file there, also
\* when the directory existed before.
C7_Layout ==
    \A k \in Flushes :
        LET e == trace[k]
        IN  /\ e.namespace # "" =>
                e.file = NamespacedFile(e.namespace, e.resourceType, e.name)
            /\ e.namespace = "" =>
                e.file = ClusterFile(e.resourceType, e.name)
            /\ e.fault = "none" => (e.ok /\ e.file \in DOMAIN files)

\* an object without a namespace and one with a namespace were flushed, and
\* two files went into the same directory
C7_Witness ==
    /\ \E k \in Flushes : trace[k].namespace = "" /\ trace[k].ok
    /\ \E k \in Flushes : trace[k].namespace # "" /\ trace[k].ok
    /\ \E k, m \in Flushes :
        /\ k < m
        /\ trace[k].ok
        /\ trace[m].ok
        /\ trace[k].file # trace[m].file
        /\ SubSeq(trace[k].file, 1, Len(trace[k].file) - 1)
             = SubSeq(trace[m].file, 1, Len(trace[m].file) - 1)

\* C8: a file whose last flush succeeded holds the bytes of the object of
\* that flush and nothing else.
C8_LastWriteWins ==
    \A f \in DOMAIN files :
        LET ks == {k \in Flushes : trace[k].file = f}
            last == CHOOSE k \in ks : \A m \in ks : m <= k
            e == trace[last]
        IN  e.ok =>
              files[f] = Encode(addTypeInformationToObject(e.obj, e.registered).obj)

\* the same path was flushed twice
C8_Witness ==
    \E k, m \in Flushes :
        k < m /\ trace[k].ok /\ trace[m].ok /\ trace[k].file = trace[m].file

\* the dynamic types the type switch of extract lists
Handled(v) ==
    \/ v.kind \in {"Deployment", "RoleBinding", "Role", "ClusterRoleBinding"}
       /\ ~v.ptr
    \/ v.kind = "ClusterRole" /\ v.ptr

\* the result is a copy of v of v's kind: descriptor, labels, name, the
\* namespace (not of a cluster role), the kind's payload, and nothing else
CanonicalCopy(v, r) ==
    /\ r.kind = v.kind
    /\ r.TypeMeta = v.TypeMeta
    /\ r.Labels = v.Labels
    /\ r.Name = v.Name
    /\ r.Namespace = IF v.kind = "ClusterRole" THEN "" ELSE v.Namespace
    /\ r.Spec = IF v.kind \in {"Pod", "Deployment"} THEN v.Spec ELSE ""
    /\ r.Rules = IF v.kind \in {"Role", "ClusterRole"} THEN v.Rules ELSE <<>>
    /\ r.RoleRef = IF v.kind \in {"RoleBinding", "ClusterRoleBinding"}
                   THEN v.RoleRef ELSE ""
    /\ r.Subjects = IF v.kind \in {"RoleBinding", "ClusterRoleBinding"}
                    THEN v.Subjects ELSE <<>>
    /\ r.ResourceVersion = ""
    /\ r.Status = ""

C10_CategoryOrder ==
    /\ \A k, m \in Events : k < m => trace[k].cat <= trace[m].cat
    /\ \A m \in Events :
        (trace[m].op = "fetch" /\ trace[m].what \in {"roles", "clusterrole"})
        => /\ m > 1
           /\ trace[m - 1].op = "flush"
           /\ trace[m - 1].resourceType =
                (IF trace[m].what = "roles" THEN "binding" ELSE "clusterbinding")
           /\ trace[m - 1].namespace = trace[m].namespace
           /\ trace[m - 1].obj.RoleRef = trace[m].name
    /\ \A m \in Flushes :
        trace[m].resourceType \in {"role", "clusterrole"}
        => \E k \in 1..(m - 1) :
            /\ trace[k].op = "fetch"
            /\ trace[k].what \in {"roles", "clusterrole"}
            /\ trace[k].ok
            /\ trace[k].name = trace[m].name
            /\ trace[k].namespace = trace[m].namespace
            /\ \A n \in (k + 1)..(m - 1) :
                 trace[n].resourceType \notin {"binding", "clusterbinding"}

\* a finished run that flushed an object of every type
C10_Witness ==
    /\ pc = "done"
    /\ \A t \in {"deployment", "binding", "role", "clusterbinding", "clusterrole"} :
        \E k \in Flushes : trace[k].resourceType = t

====
